---------------------------- MODULE Spec2Model ----------------------------
(***************************************************************************)
(* Daily MACD bullish-divergence scanner (Bullish_Divergence_finder.py).   *)
(*                                                                         *)
(* Numbers.  Prices and every value computed from them are IEEE 754        *)
(* binary64 numbers, as in the program: a number is a record               *)
(* [s, e, hi, lo] standing for s * (hi * 2^28 + lo) * 2^(e - 55), where    *)
(* the 56-bit significand hi * 2^28 + lo lies in [2^55, 2^56) and is a     *)
(* multiple of 8 (53 significant bits); zero has hi = lo = 0.  Each sum,   *)
(* difference, product and quotient is rounded on its own to nearest, ties *)
(* to even (no fused multiply-add).  Infinities, NaN, subnormal numbers    *)
(* and the sign of zero are left out: the frames considered have no        *)
(* missing quotes and no value comes near the ends of the exponent range.  *)
(*                                                                         *)
(* Time.  A bar's index entry is a timestamp in hours; daily bars sit at   *)
(* midnight.  strftime('%Y-%m-%d') keeps the day and drops the hour.       *)
(***************************************************************************)
EXTENDS Integers, Sequences, FiniteSets, TLC

VARIABLES
    pc,        \* where the program is: "call"/"returned", "scan"/"done"
    download,  \* what yf.download gives the detector: [raised, exc, df]
    ret,       \* (has_div, data) as returned by detect_bullish_divergence_low
    osc,       \* the oscillator series the call computed from the close column
    i,         \* number of WATCH_LIST entries the scanner loop has consumed
    out,       \* the per-instrument status lines printed so far
    results,   \* run_scanner's list of (ticker, data)
    table      \* the rows of the ranked table printed at the end

vars == <<pc, download, ret, osc, i, out, results, table>>

-----------------------------------------------------------------------------
(* Configuration *)

LOOKBACK_BARS == 10

MinBars == 30

AllTickers ==
    << "6723.T", "9432.T", "7011.T", "7203.T", "8058.T", "8306.T", "9501.T", "285A.T",
       "6758.T", "9434.T", "2760.T", "9984.T", "8035.T", "9503.T", "4324.T", "9433.T",
       "7272.T", "6367.T", "6146.T", "6269.T", "6501.T", "8316.T", "5706.T", "5016.T",
       "7974.T", "7013.T", "4063.T", "4502.T", "6762.T", "6361.T", "6503.T", "8053.T",
       "7267.T", "6981.T", "6702.T", "8002.T", "4568.T", "9502.T", "1911.T", "5802.T" >>

\* Bounds of the exploration.
NumTickers == 3      \* the scanner walks the first NumTickers entries of the list
MaxBars == 31        \* longest series the data source returns
TailLen == 2         \* the last TailLen bars of a series vary freely

WATCH_LIST == SubSeq(AllTickers, 1, NumTickers)

-----------------------------------------------------------------------------
(* float64 arithmetic *)

Min2(a, b) == IF a <= b THEN a ELSE b

Max2(a, b) == IF a >= b THEN a ELSE b

P13 == 2^13

P14 == 2^14

P27 == 2^27

P28 == 2^28

Zero == [s |-> 1, e |-> 0, hi |-> 0, lo |-> 0]

IsZero(x) == x.hi = 0 /\ x.lo = 0

Sgn(x) == IF IsZero(x) THEN 0 ELSE x.s

\* -x
FNeg(x) == IF IsZero(x) THEN x ELSE [x EXCEPT !.s = -x.s]

\* abs(x)
FAbs(x) == [x EXCEPT !.s = 1]

\* |a| < |b| for a, b other than zero
MagLess(a, b) ==
    \/ a.e < b.e
    \/ a.e = b.e /\ (a.hi < b.hi \/ (a.hi = b.hi /\ a.lo < b.lo))

\* a < b
FLess(a, b) ==
    IF Sgn(a) # Sgn(b) THEN Sgn(a) < Sgn(b)
    ELSE IF Sgn(a) = 1 THEN MagLess(a, b)
    ELSE IF Sgn(a) = -1 THEN MagLess(b, a)
    ELSE FALSE

\* a <= b
FLeq(a, b) == ~FLess(b, a)

\* The float64 nearest to a 56-bit significand (hi, lo) >= 2^55 whose lowest
\* bit stands for everything below it: round the low 3 bits away, ties to even.
RoundPack(s, e, hi, lo) ==
    LET r == lo % 8
        up == r > 4 \/ (r = 4 /\ (lo \div 8) % 2 = 1)
        lo2 == IF up THEN lo - r + 8 ELSE lo - r
        hi2 == hi + (lo2 \div P28)
    IN  IF hi2 = P28 THEN [s |-> s, e |-> e + 1, hi |-> P27, lo |-> 0]
        ELSE [s |-> s, e |-> e, hi |-> hi2, lo |-> lo2 % P28]

\* the number of places a word w in 1..2^28 - 1 is below 2^27
Headroom(w) == CHOOSE d \in 0..27 : w \div 2^(27 - d) = 1

\* (hi, lo) shifted left by d < 28 places
ShiftLeft(e, hi, lo, d) ==
    << e - d, hi * 2^d + (lo \div 2^(28 - d)), (lo % 2^(28 - d)) * 2^d >>

\* A significand other than 0 and below 2^56 shifted left until it reaches
\* 2^55, with the exponent that goes with it.
NormLeft(e, hi, lo) ==
    IF hi # 0 THEN ShiftLeft(e, hi, lo, Headroom(hi))
    ELSE ShiftLeft(e - 28, lo, 0, Headroom(lo))

\* set the lowest bit when bits were lost below it
Jam(lo, lost) == IF lost /\ lo % 2 = 0 THEN lo + 1 ELSE lo

\* (hi, lo) shifted right by d bits, the lost bits kept as the lowest bit
ShiftRightJam(hi, lo, d) ==
    IF d = 0 THEN << hi, lo >>
    ELSE IF d < 28 THEN
        LET p == 2^d
        IN  << hi \div p, Jam((lo \div p) + (hi % p) * 2^(28 - d), lo % p # 0) >>
    ELSE IF d < 56 THEN
        LET p == 2^(d - 28)
        IN  << 0, Jam(hi \div p, hi % p # 0 \/ lo # 0) >>
    ELSE << 0, 1 >>

AddMag(s, e, ah, al, bh, bl) ==
    LET l == al + bl
        lo == l % P28
        hi == ah + bh + (l \div P28)
    IN  IF hi >= P28
        THEN RoundPack(s, e + 1, hi \div 2, Jam((lo \div 2) + (hi % 2) * P27, lo % 2 = 1))
        ELSE RoundPack(s, e, hi, lo)

\* the float64 of sign s nearest to the normalised << e, hi, lo >>
Pack(s, n) == RoundPack(s, n[1], n[2], n[3])

SubMag(s, e, ah, al, bh, bl) ==
    LET l == al - bl
        lo == IF l < 0 THEN l + P28 ELSE l
        hi == ah - bh - (IF l < 0 THEN 1 ELSE 0)
    IN  IF hi = 0 /\ lo = 0 THEN Zero ELSE Pack(s, NormLeft(e, hi, lo))

\* x + y for |x| >= |y| > 0, sh being y's significand aligned to x's exponent
AddAligned(x, y, sh) ==
    IF x.s = y.s THEN AddMag(x.s, x.e, x.hi, x.lo, sh[1], sh[2])
    ELSE SubMag(x.s, x.e, x.hi, x.lo, sh[1], sh[2])

AddOrdered(x, y) == AddAligned(x, y, ShiftRightJam(y.hi, y.lo, x.e - y.e))

\* a + b
FAdd(a, b) ==
    IF IsZero(a) THEN b
    ELSE IF IsZero(b) THEN a
    ELSE IF MagLess(a, b) THEN AddOrdered(b, a)
    ELSE AddOrdered(a, b)

\* a - b
FSub(a, b) == FAdd(a, FNeg(b))

\* The float64 nearest to a product of significands: hi and lo are its top 56
\* bits, p3 the 14 bits below them, low tells whether anything lies lower.
MulPack(s, e, hi, lo, p3, low) ==
    IF hi >= P27
    THEN RoundPack(s, e + 1, hi, Jam(lo, p3 # 0 \/ low))
    ELSE RoundPack(s, e, 2 * hi + (lo \div P27),
                   Jam(((2 * lo) % P28) + (p3 \div P13), p3 % P13 # 0 \/ low))

\* the 112-bit product of two significands given in 14-bit limbs
MulLimbs(s, e, a3, a2, a1, a0, b3, b2, b1, b0) ==
    LET t0 == a0 * b0
        t1 == a0 * b1 + a1 * b0 + (t0 \div P14)
        t2 == a0 * b2 + a1 * b1 + a2 * b0 + (t1 \div P14)
        t3 == a0 * b3 + a1 * b2 + a2 * b1 + a3 * b0 + (t2 \div P14)
        t4 == a1 * b3 + a2 * b2 + a3 * b1 + (t3 \div P14)
        t5 == a2 * b3 + a3 * b2 + (t4 \div P14)
        t6 == a3 * b3 + (t5 \div P14)
    IN  MulPack(s, e, t6, (t5 % P14) * P14 + (t4 % P14), t3 % P14,
                t0 % P14 # 0 \/ t1 % P14 # 0 \/ t2 % P14 # 0)

\* a * b
FMul(a, b) ==
    IF IsZero(a) \/ IsZero(b) THEN Zero
    ELSE MulLimbs(a.s * b.s, a.e + b.e,
                  a.hi \div P14, a.hi % P14, a.lo \div P14, a.lo % P14,
                  b.hi \div P14, b.hi % P14, b.lo \div P14, b.lo % P14)

\* Division works on 14-bit limbs, lowest first.

\* the five limbs of the two-word number w = << hi, lo >> below 2^56
Limbs5(w) == << w[2] % P14, w[2] \div P14, w[1] % P14, w[1] \div P14, 0 >>

\* c * b for c up to 2^14 and b of four or five limbs (the fifth 0)
TimesLimb(c, b) ==
    LET t1 == c * b[1]
        t2 == c * b[2] + (t1 \div P14)
        t3 == c * b[3] + (t2 \div P14)
        t4 == c * b[4] + (t3 \div P14)
    IN  << t1 % P14, t2 % P14, t3 % P14, t4 % P14, t4 \div P14 >>

\* x <= y for numbers of five limbs: they are equal, or x is the smaller at
\* the highest limb where they differ
LeqLimbs(x, y) ==
    \A k \in 1..5 : x[k] > y[k] => \E j \in (k + 1)..5 : x[j] < y[j] /\ \A m \in (j + 1)..5 : x[m] = y[m]

\* x - y for numbers of five limbs, x >= y
MinusLimbs(x, y) ==
    LET d1 == x[1] - y[1]
        d2 == x[2] - y[2] - (IF d1 < 0 THEN 1 ELSE 0)
        d3 == x[3] - y[3] - (IF d2 < 0 THEN 1 ELSE 0)
        d4 == x[4] - y[4] - (IF d3 < 0 THEN 1 ELSE 0)
        d5 == x[5] - y[5] - (IF d4 < 0 THEN 1 ELSE 0)
    IN  << (d1 + P14) % P14, (d2 + P14) % P14, (d3 + P14) % P14, (d4 + P14) % P14, d5 >>

\* One limb of a quotient: for r < 2^14 * b, the c with c * b <= r < (c + 1) * b
\* and the remainder r - c * b.  b's top limb is at least 2^13, so c is at most
\* 2 below the quotient of the top limbs.
Digit(r, b) ==
    LET est == Min2((r[5] * P14 + r[4]) \div b[4], P14 - 1)
        c == CHOOSE c \in Max2(est - 2, 0)..est :
                 LeqLimbs(TimesLimb(c, b), r) /\ ~LeqLimbs(TimesLimb(c + 1, b), r)
    IN  << c, MinusLimbs(r, TimesLimb(c, b)) >>

\* n further limbs of the quotient of r by b, r < b: << limbs, highest first,
\* remainder >>
RECURSIVE DivDigits(_, _, _, _)
DivDigits(n, r, b, q) ==
    IF n = 0 THEN << q, r >>
    ELSE LET d == Digit(<< 0, r[1], r[2], r[3], r[4] >>, b)
         IN  DivDigits(n - 1, d[2], b, Append(q, d[1]))

\* a - b for two-word numbers a >= b
MinusWords(ah, al, bh, bl) ==
    << ah - bh - (IF al < bl THEN 1 ELSE 0), IF al < bl THEN al - bl + P28 ELSE al - bl >>

\* The float64 nearest to a quotient in [1, 2) given as 1 and 56 binary
\* places d[1] (four limbs), with the remainder d[2] left below them.
DivPack(s, e, d) ==
    RoundPack(s, e, P27 + d[1][1] * P13 + (d[1][2] \div 2),
              Jam((d[1][2] % 2) * P27 + d[1][3] * P13 + (d[1][4] \div 2),
                  d[1][4] % 2 = 1 \/ d[2] # << 0, 0, 0, 0, 0 >>))

\* a / b for b other than zero; a power of two divides exactly
FDiv(a, b) ==
    IF IsZero(a) THEN Zero
    ELSE IF b.hi = P27 /\ b.lo = 0
    THEN [s |-> a.s * b.s, e |-> a.e - b.e, hi |-> a.hi, lo |-> a.lo]
    ELSE IF a.hi > b.hi \/ (a.hi = b.hi /\ a.lo >= b.lo)
    THEN DivPack(a.s * b.s, a.e - b.e,
                 DivDigits(4, Limbs5(MinusWords(a.hi, a.lo, b.hi, b.lo)),
                           Limbs5(<< b.hi, b.lo >>), << >>))
    ELSE DivPack(a.s * b.s, a.e - b.e - 1,
                 DivDigits(4, Limbs5(MinusWords(2 * a.hi + (a.lo \div P27), (2 * a.lo) % P28,
                                                b.hi, b.lo)),
                           Limbs5(<< b.hi, b.lo >>), << >>))

\* the float64 of sign s with the normalised << e, hi, lo >>
FromNorm(s, n) == [s |-> s, e |-> n[1], hi |-> n[2], lo |-> n[3]]

\* float(n) of an integer n
FromInt(n) ==
    IF n = 0 THEN Zero
    ELSE IF n < 0 THEN FromNorm(-1, NormLeft(55, (-n) \div P28, (-n) % P28))
    ELSE FromNorm(1, NormLeft(55, n \div P28, n % P28))

\* The float64 nearest to m millionths: what a decimal quote is held as.
FromMicro(m) == FDiv(FromInt(m), FromInt(1000000))

\* Formatting f"{x:.<d>f}" with c = 10^d, for |x| < 2^31.  The significand is
\* the limbs l[1..4] (14 bits each, lowest first) with k bits below the binary
\* point.

\* what limb j adds to the whole part
WholeOfLimb(k, l, j) ==
    IF 14 * (j - 1) >= k THEN l[j] * 2^(14 * (j - 1) - k)
    ELSE IF 14 * j > k THEN l[j] \div 2^(k - 14 * (j - 1))
    ELSE 0

\* the bits of limb j below the binary point
FracOfLimb(k, l, j) ==
    IF 14 * j <= k THEN l[j]
    ELSE IF 14 * (j - 1) >= k THEN 0
    ELSE l[j] % 2^(k - 14 * (j - 1))

\* the fraction times c, in five limbs
FracTimes(k, l, c) ==
    LET t1 == FracOfLimb(k, l, 1) * c
        t2 == FracOfLimb(k, l, 2) * c + (t1 \div P14)
        t3 == FracOfLimb(k, l, 3) * c + (t2 \div P14)
        t4 == FracOfLimb(k, l, 4) * c + (t3 \div P14)
    IN  << t1 % P14, t2 % P14, t3 % P14, t4 % P14, t4 \div P14 >>

Limb(u, j) == IF j \in 1..5 THEN u[j] ELSE 0

\* u shifted right by k bits (the result is below c)
FloorShift(u, k) ==
    (Limb(u, (k \div 14) + 1) \div 2^(k % 14)) + Limb(u, (k \div 14) + 2) * 2^(14 - (k % 14))

\* bit h of u
BitAt(u, h) == (Limb(u, (h \div 14) + 1) \div 2^(h % 14)) % 2 = 1

\* whether u has a bit set below bit h
AnyBelow(u, h) ==
    \/ Limb(u, (h \div 14) + 1) % 2^(h % 14) # 0
    \/ \E j \in 1..5 : j <= h \div 14 /\ u[j] # 0

\* the text: sign, whole part, and fraction f of d digits (f = c carries)
FormatCarry(s, c, whole, f) ==
    [sign |-> s,
     whole |-> whole + (IF f = c THEN 1 ELSE 0),
     frac |-> IF f = c THEN 0 ELSE f]

\* round the fraction to nearest, ties to even
FormatRound(s, c, whole, nf, half, sticky) ==
    FormatCarry(s, c, whole, nf + (IF half /\ (sticky \/ nf % 2 = 1) THEN 1 ELSE 0))

FormatFrac(s, c, k, whole, u) ==
    FormatRound(s, c, whole, FloorShift(u, k), BitAt(u, k - 1), AnyBelow(u, k - 1))

FormatLimbs(s, c, k, l) ==
    FormatFrac(s, c, k,
               WholeOfLimb(k, l, 1) + WholeOfLimb(k, l, 2) + WholeOfLimb(k, l, 3)
                   + WholeOfLimb(k, l, 4),
               FracTimes(k, l, c))

\* the sign, and |x| rounded to d decimals (the exact binary value, ties to
\* even) as whole part and d-digit fraction
Format(x, c) ==
    FormatLimbs(x.s, c, 55 - x.e,
                << x.lo % P14, x.lo \div P14, x.hi % P14, x.hi \div P14 >>)

\* f"{x:.2f}"
Format2f(x) == Format(x, 100)

\* f"{x:.3f}"
Format3f(x) == Format(x, 1000)

\* f"{x:.1f}"
Format1f(x) == Format(x, 10)

-----------------------------------------------------------------------------
(* Series helpers (pandas) *)

\* s.iloc[-k:] : the last k entries (all of s when it is shorter)
ilocLast(s, k) == SubSeq(s, Max2(1, Len(s) - k + 1), Len(s))

\* s.iloc[:-1] : all but the last entry
ilocButLast(s) == SubSeq(s, 1, Len(s) - 1)

\* s.min() of a non-empty series of floats: the entry no other is below
SeriesMin(s) ==
    CHOOSE m \in { s[k] : k \in 1..Len(s) } : \A k \in 1..Len(s) : ~FLess(s[k], m)

Column(df, name) == [k \in 1..Len(df) |-> df[k][name]]

\* strftime('%Y-%m-%d') of a timestamp in hours: the day number
strftime(ts) == ts \div 24

\* idxmin taking the last occurrence of the minimum
idxmin_last(s, index) ==
    LET m == SeriesMin(s)
    IN  index[CHOOSE k \in 1..Len(s) : s[k] = m /\ \A j \in (k + 1)..Len(s) : s[j] # m]

\* s.idxmin(): the index label of the first occurrence of the minimum
idxmin(s, index) ==
    LET m == SeriesMin(s)
    IN  index[CHOOSE k \in 1..Len(s) : s[k] = m /\ \A j \in 1..(k - 1) : s[j] # m]

\* One step of the exponentially weighted mean with adjust=False: a sample
\* equal to the running mean leaves it as it is, any other gives
\* (old_wt * weighted + new_wt * cur) / (old_wt + new_wt).
ewm_step(weighted, cur, old_wt, new_wt) ==
    IF weighted # cur
    THEN FDiv(FAdd(FMul(old_wt, weighted), FMul(new_wt, cur)), FAdd(old_wt, new_wt))
    ELSE weighted

\* The weights of ewm(span=span, adjust=False): com = (span - 1) / 2,
\* alpha = 1 / (1 + com), old_wt_factor = 1 - alpha, new_wt = alpha; old_wt is
\* old_wt_factor at every step.
Weights ==
    [span \in {9, 12, 26} |->
        LET alpha == FDiv(FromInt(1), FAdd(FromInt(1), FDiv(FromInt(span - 1), FromInt(2))))
        IN  [old_wt |-> FSub(FromInt(1), alpha), new_wt |-> alpha]]

\* Passes of the loop over the samples up to sample number stop: means holds
\* the means of the first Len(means) samples; each pass appends the mean of
\* the next one.
RECURSIVE ewm_passes(_, _, _, _, _)
ewm_passes(x, means, stop, old_wt, new_wt) ==
    IF Len(means) >= stop THEN means
    ELSE ewm_passes(x, Append(means, ewm_step(means[Len(means)], x[Len(means) + 1],
                                              old_wt, new_wt)),
                    stop, old_wt, new_wt)

\* The loop over all the samples, evaluated eight passes at a time.
RECURSIVE ewm_loop(_, _, _, _)
ewm_loop(x, means, old_wt, new_wt) ==
    IF Len(means) = Len(x) THEN means
    ELSE ewm_loop(x, ewm_passes(x, means, Min2(Len(x), Len(means) + 8), old_wt, new_wt),
                  old_wt, new_wt)

\* the exponential average started from zero instead of the first sample
ewm_zero_seed(x, old_wt, new_wt) ==
    IF Len(x) = 0 THEN x
    ELSE ewm_loop(x, << ewm_step(Zero, x[1], old_wt, new_wt) >>, old_wt, new_wt)

ewm_mean_zero_seed(x, span) == ewm_zero_seed(x, Weights[span].old_wt, Weights[span].new_wt)

\* the first mean is the first sample, every later one a step from the mean
\* before it
ewm(x, old_wt, new_wt) ==
    IF Len(x) = 0 THEN x ELSE ewm_loop(x, << x[1] >>, old_wt, new_wt)

\* x.ewm(span=span, adjust=False).mean()
ewm_mean(x, span) == ewm(x, Weights[span].old_wt, Weights[span].new_wt)

-----------------------------------------------------------------------------
(* MACD calculation *)

\* macd_hist = (dif - dea) * 2
MACD_hist(ema12, ema26, dif, dea) ==
    [ema12 |-> ema12,
     ema26 |-> ema26,
     dif |-> dif,
     dea |-> dea,
     macd_hist |-> [k \in 1..Len(dif) |-> FMul(FSub(dif[k], dea[k]), FromInt(2))]]

\* dea = dif.ewm(span=9, adjust=False).mean()
MACD_dea(ema12, ema26, dif) == MACD_hist(ema12, ema26, dif, ewm_mean(dif, 9))

\* dif = ema12 - ema26
MACD_dif(ema12, ema26) ==
    MACD_dea(ema12, ema26, [k \in 1..Len(ema12) |-> FSub(ema12[k], ema26[k])])

MACD(close) == MACD_dif(ewm_mean(close, 12), ewm_mean(close, 26))

-----------------------------------------------------------------------------
(* detect_bullish_divergence_low *)

Error(fmt, args) == [error |-> [fmt |-> fmt, args |-> args]]

\* the length test one bar too lenient
InsufficientData_offbyone(df) == Len(df) = 0 \/ Len(df) < MinBars - 1

InsufficientData(df) == Len(df) = 0 \/ Len(df) < MinBars

\* the local-low test with a tolerance of one hundredth
NotLowestLow_tolerant(current_low, min_low) ==
    FLess(FDiv(FromInt(1), FromInt(100)), FSub(current_low, min_low))

NotLowestLow(current_low, min_low) == current_low # min_low

\* the histogram test letting equality through
HistNotRising_strict(current_hist, prev_hist_min) == FLess(current_hist, prev_hist_min)

HistNotRising(current_hist, prev_hist_min) == FLeq(current_hist, prev_hist_min)

\* the improvement divided by prev_hist_min itself, not its absolute value
hist_improvement_noabs(current_hist, prev_hist_min) ==
    IF ~IsZero(prev_hist_min)
    THEN FMul(FDiv(FSub(current_hist, prev_hist_min), prev_hist_min), FromInt(100))
    ELSE Zero

hist_improvement(current_hist, prev_hist_min) ==
    IF ~IsZero(prev_hist_min)
    THEN FMul(FDiv(FSub(current_hist, prev_hist_min), FAbs(prev_hist_min)), FromInt(100))
    ELSE Zero

\* The values the function takes from its windows.
Current(df, macd, recent_low, recent_hist, recent_close, recent_dates) ==
    [macd |-> macd,
     current_low |-> recent_low[Len(recent_low)],
     current_hist |-> recent_hist[Len(recent_hist)],
     current_close |-> recent_close[Len(recent_close)],
     current_date |-> strftime(recent_dates[Len(recent_dates)]),
     min_low |-> SeriesMin(recent_low),
     prev_hist_min |-> SeriesMin(ilocButLast(recent_hist)),
     prev_hist_min_date |->
         strftime(idxmin(ilocButLast(recent_hist), ilocButLast(recent_dates))),
     current_dif |-> macd.dif[Len(df)],
     current_dea |-> macd.dea[Len(df)]]

\* the four windows of the last LOOKBACK_BARS + 1 bars
Windows(df, close, low, macd) ==
    Current(df, macd,
            ilocLast(low, LOOKBACK_BARS + 1),
            ilocLast(macd.macd_hist, LOOKBACK_BARS + 1),
            ilocLast(close, LOOKBACK_BARS + 1),
            ilocLast(Column(df, "ts"), LOOKBACK_BARS + 1))

Indicators(df, close, low) == Windows(df, close, low, MACD(close))

\* The local variables of the function once the series is long enough.
Locals(df) == Indicators(df, Column(df, "close"), Column(df, "low"))

\* the two conditions tested in the other order
Conditions_swapped(v) ==
    IF HistNotRising(v.current_hist, v.prev_hist_min)
    THEN [has_div |-> FALSE, data |-> Error("Histogram not rising", << >>)]
    ELSE IF NotLowestLow(v.current_low, v.min_low)
    THEN [has_div |-> FALSE,
          data |-> Error("Not lowest low (min={min_low:.2f})", << Format2f(v.min_low) >>)]
    ELSE [has_div |-> TRUE,
          data |-> [date |-> v.current_date,
                    price |-> v.current_close,
                    low |-> v.current_low,
                    hist |-> v.current_hist,
                    dif |-> v.current_dif,
                    dea |-> v.current_dea,
                    prev_hist_min |-> v.prev_hist_min,
                    prev_hist_date |-> v.prev_hist_min_date,
                    hist_improvement_pct |->
                        hist_improvement(v.current_hist, v.prev_hist_min)]]

\* Condition 1, condition 2, then the finding.
Conditions(v) ==
    IF NotLowestLow(v.current_low, v.min_low)
    THEN [has_div |-> FALSE,
          data |-> Error("Not lowest low (min={min_low:.2f})", << Format2f(v.min_low) >>)]
    ELSE IF HistNotRising(v.current_hist, v.prev_hist_min)
    THEN [has_div |-> FALSE, data |-> Error("Histogram not rising", << >>)]
    ELSE [has_div |-> TRUE,
          data |-> [date |-> v.current_date,
                    price |-> v.current_close,
                    low |-> v.current_low,
                    hist |-> v.current_hist,
                    dif |-> v.current_dif,
                    dea |-> v.current_dea,
                    prev_hist_min |-> v.prev_hist_min,
                    prev_hist_date |-> v.prev_hist_min_date,
                    hist_improvement_pct |->
                        hist_improvement(v.current_hist, v.prev_hist_min)]]

NoOsc == [ema12 |-> << >>, ema26 |-> << >>, dif |-> << >>, dea |-> << >>, macd_hist |-> << >>]

\* what the function returns from its local variables, and the oscillator
\* series it computed
Verdict(v) == [ret |-> Conditions(v), macd |-> v.macd]

\* One run of the function body: the value returned, and the oscillator
\* series computed on the way (none when the function returned before line
\* 42).  An exception raised inside the try block (here by the download) is
\* returned as an error carrying str(e).
Run(dl) ==
    IF dl.raised
    THEN [ret |-> [has_div |-> FALSE, data |-> Error(dl.exc, << >>)], macd |-> NoOsc]
    ELSE IF InsufficientData(dl.df)
    THEN [ret |-> [has_div |-> FALSE, data |-> Error("Insufficient data", << >>)],
          macd |-> NoOsc]
    ELSE Verdict(Locals(dl.df))

detect_bullish_divergence_low(dl) == Run(dl).ret

-----------------------------------------------------------------------------
(* The data source: what yf.download may hand back *)

\* (low, close) of a bar in millionths; a bar's low never exceeds its close.
LowVals == {98996000, 99004000, 99012000}

CloseVals == {99500000, 100000000, 100500000}

BarVals == LowVals \X CloseVals

BaseBar == << 99004000, 100000000 >>

\* How prices moved before the last bars: "flat" not at all; "fall" low and
\* close came down to BaseBar a quarter of a unit per bar; "rise" the close
\* came up to it three hundredths per bar over an unchanged low.
Shapes == {"flat", "fall", "rise"}

LowDrift(shape) == IF shape = "fall" THEN 250000 ELSE 0

CloseDrift(shape) ==
    IF shape = "fall" THEN 250000 ELSE IF shape = "rise" THEN -30000 ELSE 0

\* the quotes of the series below, each with the float64 it is held as
Quotes ==
    [m \in LowVals \cup CloseVals
               \cup { BaseBar[1] + j * LowDrift("fall") : j \in 0..(MaxBars + 1) }
               \cup { BaseBar[2] + j * CloseDrift("fall") : j \in 0..(MaxBars + 1) }
               \cup { BaseBar[2] + j * CloseDrift("rise") : j \in 0..(MaxBars + 1) }
        |-> FromMicro(m)]

\* the float64 a quote of m millionths is held as
Float64(m) == IF m \in DOMAIN Quotes THEN Quotes[m] ELSE FromMicro(m)

\* Bar k of a series: one trading day after bar k - 1, stamped at midnight;
\* the frame holds low and close as float64.
Bar(k, lc) == [ts |-> (19000 + k) * 24, low |-> Float64(lc[1]), close |-> Float64(lc[2])]

\* A series of n bars: a run of the given shape ending at BaseBar, then the
\* bars of tail.
Series(n, shape, tail) ==
    LET m == n - Len(tail)
    IN  [k \in 1..n |->
            IF k > m THEN Bar(k, tail[k - m])
            ELSE Bar(k, << BaseBar[1] + (m - k) * LowDrift(shape),
                           BaseBar[2] + (m - k) * CloseDrift(shape) >>)]

\* the lengths explored with every shape and every tail
Lengths == {0, 1} \cup ((MinBars - 1)..MaxBars)

\* every length below the floor, explored with a falling run and one free bar
ShortLengths == 0..(MinBars - 1)

Tails(n, tailLen, barVals) == [1..Min2(n, tailLen) -> barVals]

Returned(df) == [raised |-> FALSE, exc |-> "", df |-> df]

Raised(msg) == [raised |-> TRUE, exc |-> msg, df |-> << >>]

FetchError == Raised("No data found, symbol may be delisted")

\* download is something yf.download can answer with: a series, or an exception
Fetched(dl, lengths, shapes, tailLen, barVals) ==
    \/ \E n \in lengths, sh \in shapes :
           \E tail \in Tails(n, tailLen, barVals) : dl = Returned(Series(n, sh, tail))
    \/ dl = FetchError

NoRet == [has_div |-> FALSE, data |-> [none |-> TRUE]]

NoDownload == Raised("")

-----------------------------------------------------------------------------
(* One call of the detector *)

InitDetect ==
    /\ pc = "call"
    /\ \/ Fetched(download, Lengths, Shapes, TailLen, BarVals)
       \/ Fetched(download, ShortLengths, {"fall"}, 1, BarVals)
    /\ ret = NoRet
    /\ osc = NoOsc
    /\ i = 0
    /\ out = << >>
    /\ results = << >>
    /\ table = << >>

\* the call's return value goes to ret; osc keeps the oscillator series the
\* function computed on the way, when it got that far
Returns(r) == ret' = r.ret /\ osc' = r.macd

Call ==
    /\ pc = "call"
    /\ Returns(Run(download))
    /\ pc' = "returned"
    /\ UNCHANGED <<download, i, out, results, table>>

NextDetect == Call

SpecDetect == InitDetect /\ [][NextDetect]_vars

-----------------------------------------------------------------------------
(* run_scanner *)

HasError(data) == "error" \in DOMAIN data

Key(x) == x[2].hist_improvement_pct

\* t is ordered by non-increasing key; x goes after every entry whose key is
\* not smaller than its own.
InsertDescending(t, x) ==
    LET pos == Cardinality({ k \in 1..Len(t) : ~FLess(Key(t[k]), Key(x)) })
    IN  SubSeq(t, 1, pos) \o << x >> \o SubSeq(t, pos + 1, Len(t))

\* t is ordered by non-decreasing key; x goes after every entry whose key is
\* not greater than its own.
InsertAscending(t, x) ==
    LET pos == Cardinality({ k \in 1..Len(t) : ~FLess(Key(x), Key(t[k])) })
    IN  SubSeq(t, 1, pos) \o << x >> \o SubSeq(t, pos + 1, Len(t))

RECURSIVE StableAscending(_)
StableAscending(s) ==
    IF s = << >> THEN << >>
    ELSE InsertAscending(StableAscending(ilocButLast(s)), s[Len(s)])

Reverse(s) == [k \in 1..Len(s) |-> s[Len(s) + 1 - k]]

\* the sort without reverse=True
sort_ascending(s) == StableAscending(s)

\* an ascending sort turned around: equal keys come out in reverse order
sort_then_reverse(s) == Reverse(StableAscending(s))

\* results.sort(key=lambda x: x[1]['hist_improvement_pct'], reverse=True):
\* a stable sort, entries with equal keys keep their order.
RECURSIVE sort_by_improvement(_)
sort_by_improvement(s) ==
    IF s = << >> THEN << >>
    ELSE InsertDescending(sort_by_improvement(ilocButLast(s)), s[Len(s)])

\* One printed row of the ranked table.
Row(x) ==
    LET ticker == x[1]
        d == x[2]
    IN  [ticker |-> ticker,
         date |-> d.date,
         price |-> Format2f(d.price),
         hist |-> Format3f(d.hist),
         prev_hist_min |-> Format3f(d.prev_hist_min),
         improve |-> Format1f(d.hist_improvement_pct),
         macd_state |-> IF FLess(d.dea, d.dif) THEN "Bullish GC" ELSE "Bearish"]

\* the loop leaving at the first error instead of going on to the next ticker
AfterIteration_break(k, data) == IF HasError(data) THEN Len(WATCH_LIST) ELSE k + 1

\* Where the loop stands after the iteration for entry k + 1: `continue` and
\* the end of the body both go on to the next ticker.
AfterIteration(k, data) == k + 1

\* What the iteration leaves in results.
Collected(res, ticker, has_div, data) ==
    IF HasError(data) THEN res
    ELSE IF has_div THEN Append(res, << ticker, data >>)
    ELSE res

\* What the data source answers during a scan: an exception, or a series of
\* 29 or 30 bars, flat or falling, ending in any one bar.
ScanVerdicts ==
    { detect_bullish_divergence_low(FetchError) }
        \cup { detect_bullish_divergence_low(Returned(Series(n, sh, tail))) :
                   n \in {MinBars - 1, MinBars}, sh \in {"flat", "fall"},
                   tail \in Tails(1, 1, BarVals) }

InitScan ==
    /\ pc = "scan"
    /\ download = NoDownload
    /\ ret = NoRet
    /\ osc = NoOsc
    /\ i = 0
    /\ out = << >>
    /\ results = << >>
    /\ table = << >>

\* One pass of the for loop: analyse WATCH_LIST[i + 1].
Analyze ==
    /\ pc = "scan"
    /\ i < Len(WATCH_LIST)
    /\ \E r \in ScanVerdicts :
           LET ticker == WATCH_LIST[i + 1]
           IN  /\ ret' = r
               /\ out' = Append(out, [ticker |-> ticker, has_div |-> r.has_div, data |-> r.data])
               /\ results' = Collected(results, ticker, r.has_div, r.data)
               /\ i' = AfterIteration(i, r.data)
    /\ UNCHANGED <<pc, download, osc, table>>

\* After the loop: sort the candidates and print the ranked table.
Report ==
    /\ pc = "scan"
    /\ i >= Len(WATCH_LIST)
    /\ LET ranked == IF results # << >> THEN sort_by_improvement(results) ELSE results
       IN  /\ results' = ranked
           /\ table' = [k \in 1..Len(ranked) |-> Row(ranked[k])]
    /\ pc' = "done"
    /\ UNCHANGED <<download, ret, osc, i, out>>

NextScan == Analyze \/ Report

SpecScan == InitScan /\ [][NextScan]_vars

-----------------------------------------------------------------------------
(* What a call was given and what it answered, read off the state *)

Frame == download.df

NBars == Len(Frame)

\* positions of the LOOKBACK_BARS bars before the trigger bar
Preceding == (NBars - LOOKBACK_BARS)..(NBars - 1)

TriggerLow == Frame[NBars].low

\* the least of a non-empty set of floats
SetMin(S) == CHOOSE m \in S : \A x \in S : FLeq(m, x)

WindowMinLow == SetMin({ Frame[k].low : k \in Preceding \cup {NBars} })

\* the histogram the call computed (a series of 30 bars or more)
Histogram == osc.macd_hist

TriggerHist == Histogram[NBars]

PrecedingHistMin ==
    LET h == Histogram
        S == { h[k] : k \in Preceding }
    IN  SetMin(S)

ReturnedFrom(lo, hi) ==
    pc = "returned" /\ ~download.raised /\ lo <= NBars /\ NBars <= hi

Rejected(r, fmt) ==
    ~r.has_div /\ "error" \in DOMAIN r.data /\ r.data.error.fmt = fmt

Finding(r) == r.has_div /\ "error" \notin DOMAIN r.data

NotLocalLowMsg == "Not lowest low (min={min_low:.2f})"

\* float("<whole>.<frac>") of a text with two decimals
Parse2f(t) == FDiv(FromInt(t.sign * (t.whole * 100 + t.frac)), FromInt(100))

-----------------------------------------------------------------------------
(* Claims about the detector *)

\* C1: a series shorter than 30 bars, the empty one included, is always
\* answered "Insufficient data", whatever its lows and closes are.
C1_ShortSeriesInsufficient ==
    ReturnedFrom(0, MinBars - 1) => Rejected(ret, "Insufficient data")

\* a 29-bar series whose last bar is not the lowest of its window, rejected
\* for its length
C1_Witness ==
    /\ ReturnedFrom(MinBars - 1, MinBars - 1)
    /\ TriggerLow # WindowMinLow
    /\ Rejected(ret, "Insufficient data")

\* C2 (as amended): with 30 bars or more, an earlier bar of the window lower
\* than the trigger bar gives "Not lowest low" carrying the window minimum
\* rendered to two decimals; a trigger bar equal to the window minimum is
\* never answered "Not lowest low".
C2_LocalLowExact ==
    ReturnedFrom(MinBars, MaxBars) =>
        /\ (\E k \in Preceding : FLess(Frame[k].low, TriggerLow)) =>
               /\ Rejected(ret, NotLocalLowMsg)
               /\ ret.data.error.args = << Format2f(WindowMinLow) >>
        /\ (\A k \in Preceding : FLeq(TriggerLow, Frame[k].low)) =>
               ~Rejected(ret, NotLocalLowMsg)

\* an earlier bar is lower by 0.008 and the answer carries the minimum 99.004
\* as 99.00
C2_Witness ==
    /\ ReturnedFrom(MinBars, MaxBars)
    /\ \E k \in Preceding : FLess(Frame[k].low, TriggerLow)
    /\ Rejected(ret, NotLocalLowMsg)
    /\ WindowMinLow = FromMicro(99004000)
    /\ ret.data.error.args = << [sign |-> 1, whole |-> 99, frac |-> 0] >>

\* C2 as stated: the rejection carries the window minimum itself.
C2_Original ==
    ReturnedFrom(MinBars, MaxBars) =>
        /\ (\E k \in Preceding : FLess(Frame[k].low, TriggerLow)) =>
               /\ Rejected(ret, NotLocalLowMsg)
               /\ Parse2f(ret.data.error.args[1]) = WindowMinLow
        /\ (\A k \in Preceding : FLeq(TriggerLow, Frame[k].low)) =>
               ~Rejected(ret, NotLocalLowMsg)

\* C3: with 30 bars or more and the trigger bar a local low, a trigger
\* histogram at or below the minimum of the LOOKBACK_BARS bars before it gives
\* "Histogram not rising", and one strictly above it gives a finding.
C3_MomentumGate ==
    (ReturnedFrom(MinBars, MaxBars) /\ TriggerLow = WindowMinLow) =>
        /\ FLeq(TriggerHist, PrecedingHistMin) => Rejected(ret, "Histogram not rising")
        /\ FLess(PrecedingHistMin, TriggerHist) => Finding(ret)

\* a local low whose histogram equals the earlier minimum, rejected
C3_Witness ==
    /\ ReturnedFrom(MinBars, MaxBars)
    /\ TriggerLow = WindowMinLow
    /\ TriggerHist = PrecedingHistMin
    /\ Rejected(ret, "Histogram not rising")

\* C4: a finding's hist_improvement_pct is (hist - prev_hist_min) /
\* |prev_hist_min| * 100 when prev_hist_min is not 0, and 0 when it is; it is
\* strictly positive whenever prev_hist_min is negative, at least 100 when
\* the histogram has come up to zero or beyond and at most 100 when not.
C4_ImprovementPct ==
    (pc = "returned" /\ Finding(ret)) =>
        LET d == ret.data
            pct == d.hist_improvement_pct
        IN  /\ d.hist = TriggerHist
            /\ d.prev_hist_min = PrecedingHistMin
            /\ ~IsZero(d.prev_hist_min) =>
                   pct = FMul(FDiv(FSub(d.hist, d.prev_hist_min), FAbs(d.prev_hist_min)),
                              FromInt(100))
            /\ IsZero(d.prev_hist_min) => IsZero(pct)
            /\ FLess(d.prev_hist_min, Zero) =>
                   /\ FLess(Zero, pct)
                   /\ FLeq(Zero, d.hist) => FLeq(FromInt(100), pct)
                   /\ FLeq(d.hist, Zero) => FLeq(pct, FromInt(100))

\* a finding that rose from a negative trough to a positive histogram
C4_Witness ==
    /\ pc = "returned"
    /\ Finding(ret)
    /\ FLess(ret.data.prev_hist_min, Zero)
    /\ FLess(Zero, ret.data.hist)
    /\ FLess(FromInt(100), ret.data.hist_improvement_pct)

\* C5: a finding's prev_hist_date is the day of the earliest of the
\* LOOKBACK_BARS bars before the trigger bar whose histogram is their minimum.
C5_EarliestMinimumDate ==
    (pc = "returned" /\ Finding(ret)) =>
        LET h == Histogram
            m == PrecedingHistMin
        IN  \E k \in Preceding :
                /\ ret.data.prev_hist_date = Frame[k].ts \div 24
                /\ h[k] = m
                /\ \A j \in Preceding : j < k => FLess(m, h[j])
                /\ ret.data.prev_hist_date # ret.data.date

\* a finding with several earlier bars tied for the minimum
C5_Witness ==
    /\ pc = "returned"
    /\ Finding(ret)
    /\ LET h == Histogram
           m == PrecedingHistMin
       IN  Cardinality({ k \in Preceding : h[k] = m }) > 1

\* C9: the tests run in the order length, local low, histogram: a short
\* series is "Insufficient data" even with a trigger bar that is no local low;
\* a long one failing both remaining tests is "Not lowest low"; a finding
\* means all three passed; and every call answers with exactly one verdict.
C9_TestOrder ==
    (pc = "returned" /\ ~download.raised) =>
        /\ Cardinality({ f \in {"Insufficient data", NotLocalLowMsg, "Histogram not rising"} :
                            Rejected(ret, f) } \cup { 0 : x \in { y \in {0} : Finding(ret) } }) = 1
        /\ (NBars < MinBars) => Rejected(ret, "Insufficient data")
        /\ (NBars >= MinBars /\ TriggerLow # WindowMinLow /\ FLeq(TriggerHist, PrecedingHistMin))
               => Rejected(ret, NotLocalLowMsg)
        /\ Finding(ret) =>
               /\ NBars >= MinBars
               /\ TriggerLow = WindowMinLow
               /\ FLess(PrecedingHistMin, TriggerHist)

\* a long series failing both the local-low and the histogram test
C9_Witness ==
    /\ ReturnedFrom(MinBars, MaxBars)
    /\ TriggerLow # WindowMinLow
    /\ FLeq(TriggerHist, PrecedingHistMin)
    /\ Rejected(ret, NotLocalLowMsg)

-----------------------------------------------------------------------------
(* Claim about the oscillator *)

OscClose == Column(download.df, "close")

Constant(s) == \A k \in 1..Len(s) : s[k] = s[1]

\* the oscillator of a series is flat at its first close
Flat(m, close) ==
    \A k \in 1..Len(close) :
        /\ m.ema12[k] = close[1]
        /\ m.ema26[k] = close[1]
        /\ IsZero(m.dif[k])
        /\ IsZero(m.dea[k])
        /\ IsZero(m.macd_hist[k])

\* C8: for a constant close series both exponential averages equal that
\* constant at every index, so dif, dea and the histogram are 0 at every
\* index, for the series the call was given and for each of its beginnings of
\* one bar or more; and every output is as long as the input.
C8_ConstantCloseIsFlat ==
    ReturnedFrom(MinBars, MaxBars) =>
        /\ Len(osc.ema12) = NBars
        /\ Len(osc.ema26) = NBars
        /\ Len(osc.dif) = NBars
        /\ Len(osc.dea) = NBars
        /\ Len(osc.macd_hist) = NBars
        /\ Constant(OscClose) =>
               /\ Flat(osc, OscClose)
               /\ \A n \in 1..(NBars - 1) :
                      Flat(MACD(SubSeq(OscClose, 1, n)), SubSeq(OscClose, 1, n))

\* the longest series, every close the same
C8_Witness ==
    /\ ReturnedFrom(MaxBars, MaxBars)
    /\ Constant(OscClose)
    /\ IsZero(osc.macd_hist[MaxBars])
    /\ osc.ema26[MaxBars] = FromMicro(100000000)

-----------------------------------------------------------------------------
(* Claims about the scan *)

Tickers(rows) == [k \in 1..Len(rows) |-> rows[k].ticker]

\* the analysed entries whose detection returned a finding, in list order
FoundLog == SelectSeq(out, LAMBDA e : e.has_div /\ ~HasError(e.data))

\* position of a ticker in WATCH_LIST
ListPos(t) == CHOOSE k \in 1..Len(WATCH_LIST) : WATCH_LIST[k] = t

\* the key of the row at position k of the sorted results
RowKey(k) == results[k][2].hist_improvement_pct

\* the number a printed percentage stands for, in tenths
Tenths(t) == t.sign * (t.whole * 10 + t.frac)

\* C6: the ranked table lists the collected findings, each once, by
\* non-increasing hist_improvement_pct: no row has a smaller percentage than
\* the row below it.
C6_RankedDescending ==
    pc = "done" =>
        /\ Len(table) = Len(FoundLog)
        /\ \A e \in { FoundLog[k] : k \in 1..Len(FoundLog) } :
               \E k \in 1..Len(table) :
                   /\ results[k] = << e.ticker, e.data >>
                   /\ table[k] = Row(results[k])
        /\ \A k \in 1..(Len(table) - 1) :
               /\ FLeq(RowKey(k + 1), RowKey(k))
               /\ Tenths(table[k].improve) >= Tenths(table[k + 1].improve)

\* three findings collected in the order smallest, largest, middle
C6_Witness ==
    /\ pc = "done"
    /\ Len(FoundLog) = 3
    /\ FLess(Key(<< 0, FoundLog[1].data >>), Key(<< 0, FoundLog[3].data >>))
    /\ FLess(Key(<< 0, FoundLog[3].data >>), Key(<< 0, FoundLog[2].data >>))
    /\ Tickers(table) = << FoundLog[2].ticker, FoundLog[3].ticker, FoundLog[1].ticker >>

\* where the scan stands: the entries analysed so far are the first i of the
\* list, in list order; results holds exactly those of them whose detection
\* returned a finding; and the report has a row for exactly those
ScanSoFar ==
    /\ pc \in {"scan", "done"} =>
           /\ i <= Len(WATCH_LIST)
           /\ Len(out) = i
           /\ \A k \in 1..Len(out) : out[k].ticker = WATCH_LIST[k]
           /\ { results[k][1] : k \in 1..Len(results) } =
                  { FoundLog[k].ticker : k \in 1..Len(FoundLog) }
    /\ pc = "done" =>
           /\ Len(out) = Len(WATCH_LIST)
           /\ Len(table) = Len(FoundLog)
           /\ { table[k].ticker : k \in 1..Len(table) } =
                  { FoundLog[k].ticker : k \in 1..Len(FoundLog) }

\* a step of the scan: before the end of the list it analyses the next entry
\* and stays in the loop whatever the outcome, keeping the findings collected
\* so far; at the end of the list it prints the report
ScanStep ==
    /\ (pc = "scan" /\ i < Len(WATCH_LIST)) =>
           /\ pc' = "scan"
           /\ i' = i + 1
           /\ out' = Append(out, out'[i + 1])
           /\ out'[i + 1].ticker = WATCH_LIST[i + 1]
           /\ SubSeq(results', 1, Len(results)) = results
    /\ (pc = "scan" /\ i >= Len(WATCH_LIST)) =>
           /\ pc' = "done"
           /\ out' = out

\* C7: every entry of the list is analysed exactly once, in list order,
\* whatever each one's outcome: each step before the end of the list takes the
\* next entry and none leaves the loop early, the report comes only after the
\* whole list, and it has a row for exactly the entries whose detection
\* returned a finding.
C7_ScanIsolation == []ScanSoFar /\ [][ScanStep]_vars

\* the first download raised, the second entry was too short, the third gave
\* a finding, and the table shows it
C7_Witness ==
    /\ pc = "done"
    /\ Len(out) >= 3
    /\ HasError(out[1].data) /\ out[1].data.error.fmt = FetchError.exc
    /\ HasError(out[2].data) /\ out[2].data.error.fmt = "Insufficient data"
    /\ out[3].has_div
    /\ \E k \in 1..Len(table) : table[k].ticker = WATCH_LIST[3]

\* C10: rows with equal hist_improvement_pct stand in the order of their
\* tickers in the watchlist.
C10_StableRanking ==
    pc = "done" =>
        \A a, b \in 1..Len(table) :
            (a < b /\ RowKey(a) = RowKey(b))
                => ListPos(table[a].ticker) < ListPos(table[b].ticker)

\* two findings of 0 percent (prev_hist_min = 0) below a finding with more
C10_Witness ==
    /\ pc = "done"
    /\ Len(table) = 3
    /\ FLess(Zero, RowKey(1))
    /\ IsZero(results[2][2].prev_hist_min)
    /\ IsZero(results[3][2].prev_hist_min)
    /\ results[2][2] # results[3][2]
    /\ ListPos(table[2].ticker) < ListPos(table[3].ticker)

=============================================================================
